---- MODULE Spec2Model ----
(***************************************************************************)
(* A model of the GICv3 driver of cr52_rt (src/src/gic.rs): the registers  *)
(* the driver reads and writes, Gic::init as the sequence of its register  *)
(* accesses, the per-SGI operations, the SGI routing word, and the         *)
(* acknowledge / end-of-interrupt lifecycle of the CPU interface.          *)
(*                                                                         *)
(* A 32-bit register value (a "word") is the set of the positions of its   *)
(* one bits, so that |, &, ! and << are computed bit by bit as the code    *)
(* computes them.                                                          *)
(***************************************************************************)
EXTENDS Integers, Sequences, FiniteSets, TLC

VARIABLES
    gicd,   \* distributor registers: register -> word
    gicr,   \* redistributor frames: core -> (register -> word)
    icc,    \* CPU interface system registers: core -> (register -> word)
    ap,     \* CPU interface active priorities: core -> stack of acknowledged interrupts
    pc,     \* position of the boot core in the operation it runs step by step
            \* (Gic::init, enable_sgi against an interrupt handler; 0: in none)
    tmp,    \* the local that holds the last value init read
    wlog,   \* register writes and barriers of the operation running or last run
    last    \* the operation running or last run, its arguments and its result

vars == <<gicd, gicr, icc, ap, pc, tmp, wlog, last>>

----------------------------------------------------------------------------
(* Bounds of the model *)

NumCores == 2

Cores == 0 .. (NumCores - 1)

----------------------------------------------------------------------------
(* Words *)

WordBits == 0 .. 31

\* the word of a number below 2^31
W(n) == {i \in 0 .. 30 : (n \div (2 ^ i)) % 2 = 1}

RECURSIVE Val(_)
\* the number of a word below 2^31
Val(w) == IF w = {} THEN 0
          ELSE LET i == CHOOSE j \in w : TRUE IN (2 ^ i) + Val(w \ {i})

Or(a, b) == a \cup b
And(a, b) == a \cap b
Not(a) == WordBits \ a
Shl(a, k) == {i + k : i \in a} \cap WordBits
Shr(a, k) == {i - k : i \in a} \cap WordBits

\* 0xFFFF_FFFF
ALL_ONES == WordBits

\* byte lane `lane` (0..3) of a word, as a number
ByteOf(w, lane) == Val(And(Shr(w, 8 * lane), W(255)))

----------------------------------------------------------------------------
(* Program constants *)

GICD_CTLR_ENABLE_GRP0 == Shl(W(1), 0)
GICD_CTLR_ENABLE_GRP1 == Shl(W(1), 1)
GICR_WAKER_PROCESSOR_SLEEP == Shl(W(1), 1)
GICR_WAKER_CHILDREN_ASLEEP == Shl(W(1), 2)
SGIR_TARGET_LIST_FILTER_SHIFT == 24
SGI_TARGET_LIST == Val(Shl(W(0), SGIR_TARGET_LIST_FILTER_SHIFT))
SGI_TARGET_ALL_EXCEPT_SELF == Val(Shl(W(1), SGIR_TARGET_LIST_FILTER_SHIFT))
SGI_TARGET_SELF == Val(Shl(W(2), SGIR_TARGET_LIST_FILTER_SHIFT))
DEFAULT_SGI_PRIORITY == 160
MAX_SGI_ID == 15
timer_interrupt_id == 30

\* The redistributor registers are addressed at the fixed GICR_BASE: the frame
\* of core 0, whichever core runs the code.  The memory-mapped operations are
\* run by that core.
GICR_FRAME == 0

----------------------------------------------------------------------------
(* The registers *)

DistRegs == {<<"GICD_CTLR", 0>>, <<"GICD_TYPER", 0>>, <<"GICD_IGROUPR0", 0>>}
               \cup {<<"GICD_IPRIORITYR", i>> : i \in 0 .. 3}

\* The state a redistributor frame holds.  The enable bits are read through
\* GICR_ISENABLER0 and changed through GICR_ISENABLER0 (write 1 to set) and
\* GICR_ICENABLER0 (write 1 to clear); the pending bits are cleared through
\* GICR_ICPENDR0 (write 1 to clear).
RedistRegs == {<<"GICR_WAKER", 0>>, <<"GICR_IGROUPR0", 0>>, <<"GICR_ISENABLER0", 0>>,
               <<"GICR_ISPENDR0", 0>>, <<"GICR_ISACTIVER0", 0>>}
               \cup {<<"GICR_IPRIORITYR", i>> : i \in 0 .. 7}

SysRegs == {"ICC_SRE", "ICC_PMR", "ICC_IGRPEN1", "ICC_CTLR"}

\* read_volatile of a memory-mapped register
read_volatile(d, r, reg) ==
    IF reg \in DistRegs THEN d[reg]
    ELSE IF reg = <<"GICR_ICENABLER0", 0>> THEN r[GICR_FRAME][<<"GICR_ISENABLER0", 0>>]
    ELSE r[GICR_FRAME][reg]

\* write_volatile to a distributor register: the distributor after the write
\* (GICD_TYPER is read-only)
write_gicd(d, reg, val) ==
    IF reg \in DistRegs \ {<<"GICD_TYPER", 0>>} THEN [d EXCEPT ![reg] = val] ELSE d

\* write_volatile to a redistributor register: the frame after the write
write_frame(f, reg, val) ==
    IF reg = <<"GICR_ISENABLER0", 0>>
        THEN [f EXCEPT ![<<"GICR_ISENABLER0", 0>>] = Or(@, val)]
    ELSE IF reg = <<"GICR_ICENABLER0", 0>>
        THEN [f EXCEPT ![<<"GICR_ISENABLER0", 0>>] = And(@, Not(val))]
    ELSE IF reg = <<"GICR_ICPENDR0", 0>>
        THEN [f EXCEPT ![<<"GICR_ISPENDR0", 0>>] = And(@, Not(val))]
    ELSE IF reg = <<"GICR_WAKER", 0>>
        \* ChildrenAsleep is read-only: the hardware drives it
        THEN [f EXCEPT ![reg] = Or(And(val, Not(GICR_WAKER_CHILDREN_ASLEEP)),
                                   And(@, GICR_WAKER_CHILDREN_ASLEEP))]
    ELSE IF reg \in RedistRegs THEN [f EXCEPT ![reg] = val]
    ELSE f

write_gicr(r, reg, val) ==
    IF reg \in DistRegs THEN r
    ELSE [r EXCEPT ![GICR_FRAME] = write_frame(@, reg, val)]

\* log entries
LogWrite(reg, val) == [k |-> "w", reg |-> reg, val |-> val, hi |-> {}]
\* a 64-bit system register write (MCRR): Rt is val, Rt2 is hi
LogWrite64(reg, val, hi) == [k |-> "w", reg |-> reg, val |-> val, hi |-> hi]
LogIsb == [k |-> "isb", reg |-> <<"", 0>>, val |-> {}, hi |-> {}]

----------------------------------------------------------------------------
(* The CPU interface system registers *)

\* the system register an MCR/MRC "p15, 0, Rt, cCRn, cCRm, opc2" names
SysRegOf(crn, crm, opc2) ==
    IF <<crn, crm, opc2>> = <<12, 12, 4>> THEN "ICC_CTLR"
    ELSE IF <<crn, crm, opc2>> = <<4, 6, 0>> THEN "ICC_PMR"
    ELSE IF <<crn, crm, opc2>> = <<12, 12, 7>> THEN "ICC_IGRPEN1"
    ELSE IF <<crn, crm, opc2>> = <<12, 12, 5>> THEN "ICC_SRE"
    ELSE IF <<crn, crm, opc2>> = <<12, 12, 0>> THEN "ICC_IAR1"
    ELSE IF <<crn, crm, opc2>> = <<12, 12, 1>> THEN "ICC_EOIR1"
    ELSE IF <<crn, crm, opc2>> = <<12, 11, 1>> THEN "ICC_DIR"
    ELSE IF <<crn, crm, opc2>> = <<12, 11, 3>> THEN "ICC_RPR"
    ELSE IF <<crn, crm, opc2>> = <<12, 8, 1>> THEN "ICC_EOIR0"
    ELSE "UNKNOWN"

\* the bits a CPU interface register implements
SysRegMask(reg) ==
    IF reg = "ICC_PMR" THEN W(255)
    ELSE IF reg = "ICC_IGRPEN1" THEN W(1)
    ELSE IF reg = "ICC_SRE" THEN W(7)
    ELSE IF reg = "ICC_CTLR" THEN W(3)
    ELSE {}

\* an MCR to a CPU interface register of core c: the registers after it
write_icc(ic, c, reg, val) ==
    IF reg \in SysRegs THEN [ic EXCEPT ![c][reg] = And(val, SysRegMask(reg))] ELSE ic

----------------------------------------------------------------------------
(* Gic::init: its register accesses, in program order *)

Ins(op, reg, val, mask, line) ==
    [op |-> op, reg |-> reg, val |-> val, mask |-> mask, line |-> line]

Mcr(crn, crm, opc2, val, line) == Ins("mcr", <<SysRegOf(crn, crm, opc2), 0>>, val, {}, line)
Isb(line) == Ins("isb", <<"", 0>>, {}, {}, line)

\* (DEFAULT_SGI_PRIORITY << 24) | (.. << 16) | (.. << 8) | DEFAULT_SGI_PRIORITY
DefaultPriorityWord ==
    Or(Or(Shl(W(DEFAULT_SGI_PRIORITY), 24), Shl(W(DEFAULT_SGI_PRIORITY), 16)),
       Or(Shl(W(DEFAULT_SGI_PRIORITY), 8), W(DEFAULT_SGI_PRIORITY)))

timer_mask == Shl(W(1), timer_interrupt_id % 32)
timer_priority_reg == <<"GICR_IPRIORITYR", timer_interrupt_id \div 4>>
timer_byte_offset == (timer_interrupt_id % 4) * 8

\* Gic::write_icc_ctlr(value)
write_icc_ctlr(value, line) == << Mcr(12, 12, 4, value, line), Isb(line) >>

\* init configuring the distributor without disabling it first
InitDistributor_NoDisable ==
    << Ins("read", <<"GICD_IGROUPR0", 0>>, {}, {}, 107),
       Ins("write_or", <<"GICD_IGROUPR0", 0>>, ALL_ONES, {}, 109) >>
    \o [i \in 1 .. 4 |-> Ins("write", <<"GICD_IPRIORITYR", i - 1>>, DefaultPriorityWord, {}, 115)]

InitDistributor ==
    << Ins("write", <<"GICD_CTLR", 0>>, W(0), {}, 103),
       Ins("read", <<"GICD_IGROUPR0", 0>>, {}, {}, 107),
       Ins("write_or", <<"GICD_IGROUPR0", 0>>, ALL_ONES, {}, 109) >>
    \o [i \in 1 .. 4 |-> Ins("write", <<"GICD_IPRIORITYR", i - 1>>, DefaultPriorityWord, {}, 115)]

\* init going on without waiting for the redistributor
InitWake_NoWait ==
    << Ins("read", <<"GICR_WAKER", 0>>, {}, {}, 127),
       Ins("write_clear", <<"GICR_WAKER", 0>>, GICR_WAKER_PROCESSOR_SLEEP, {}, 129) >>

InitWake ==
    << Ins("read", <<"GICR_WAKER", 0>>, {}, {}, 127),
       Ins("write_clear", <<"GICR_WAKER", 0>>, GICR_WAKER_PROCESSOR_SLEEP, {}, 129),
       Ins("spin", <<"GICR_WAKER", 0>>, {}, GICR_WAKER_CHILDREN_ASLEEP, 132) >>

\* init writing the timer priority as a whole word
InitPrivate_TimerPriorityOverwrite ==
    << Ins("read", <<"GICR_IGROUPR0", 0>>, {}, {}, 137),
       Ins("write_or", <<"GICR_IGROUPR0", 0>>, ALL_ONES, {}, 139),
       Ins("write", <<"GICR_ISENABLER0", 0>>, ALL_ONES, {}, 142) >>
    \o [i \in 1 .. 4 |-> Ins("write", <<"GICR_IPRIORITYR", i - 1>>, DefaultPriorityWord, {}, 147)]
    \o << Ins("write", <<"GICR_ISENABLER0", 0>>, Shl(W(1), timer_interrupt_id % 32), {}, 160),
          Ins("read", <<"GICR_IGROUPR0", 0>>, {}, {}, 163),
          Ins("write_or", <<"GICR_IGROUPR0", 0>>, Shl(W(1), timer_interrupt_id % 32), {}, 165),
          Ins("write", <<"GICR_IPRIORITYR", timer_interrupt_id \div 4>>,
              Shl(W(DEFAULT_SGI_PRIORITY), (timer_interrupt_id % 4) * 8), {}, 174) >>

InitPrivate ==
    << Ins("read", <<"GICR_IGROUPR0", 0>>, {}, {}, 137),
       Ins("write_or", <<"GICR_IGROUPR0", 0>>, ALL_ONES, {}, 139),
       Ins("write", <<"GICR_ISENABLER0", 0>>, ALL_ONES, {}, 142) >>
    \o [i \in 1 .. 4 |-> Ins("write", <<"GICR_IPRIORITYR", i - 1>>, DefaultPriorityWord, {}, 147)]
    \o << Ins("write", <<"GICR_ISENABLER0", 0>>, timer_mask, {}, 160),
          Ins("read", <<"GICR_IGROUPR0", 0>>, {}, {}, 163),
          Ins("write_or", <<"GICR_IGROUPR0", 0>>, timer_mask, {}, 165),
          Ins("read", timer_priority_reg, {}, {}, 170),
          Ins("write_field", timer_priority_reg,
              Shl(W(DEFAULT_SGI_PRIORITY), timer_byte_offset),
              Shl(W(255), timer_byte_offset), 174) >>

\* init selecting EOI mode 1 in its last write of ICC_CTLR
InitCpuInterface_EOImode1 ==
    write_icc_ctlr(W(0), 176)
    \o << Mcr(4, 6, 0, W(255), 179), Isb(180),
          Mcr(12, 12, 7, W(7), 184), Isb(185),
          Mcr(4, 6, 0, W(255), 189),
          Mcr(12, 12, 7, W(1), 193),
          Mcr(12, 12, 5, W(7), 197),
          Mcr(4, 6, 0, W(255), 200),
          Mcr(12, 12, 7, W(1), 203), Isb(204) >>
    \o write_icc_ctlr(W(2), 208)

InitCpuInterface ==
    write_icc_ctlr(W(0), 176)
    \o << Mcr(4, 6, 0, W(255), 179), Isb(180),
          Mcr(12, 12, 7, W(7), 184), Isb(185),
          Mcr(4, 6, 0, W(255), 189),
          Mcr(12, 12, 7, W(1), 193),
          Mcr(12, 12, 5, W(7), 197),
          Mcr(4, 6, 0, W(255), 200),
          Mcr(12, 12, 7, W(1), 203), Isb(204) >>
    \o write_icc_ctlr(W(0), 208)

\* init enabling group 1 only
InitEnableDistributor_Group1Only ==
    << Ins("write", <<"GICD_CTLR", 0>>, GICD_CTLR_ENABLE_GRP1, {}, 211) >>

InitEnableDistributor ==
    << Ins("write", <<"GICD_CTLR", 0>>,
           Or(GICD_CTLR_ENABLE_GRP0, GICD_CTLR_ENABLE_GRP1), {}, 211) >>

\* init with the distributor enabled before the CPU interface is set up
InitCode_EnableBeforeCpuInterface ==
    InitDistributor \o InitWake \o InitPrivate \o InitEnableDistributor \o InitCpuInterface

InitCode ==
    InitDistributor \o InitWake \o InitPrivate \o InitCpuInterface \o InitEnableDistributor

\* the wait loop testing ProcessorSleep, which init has just cleared itself
SpinExit_TestsProcessorSleep(w, mask) == And(w, GICR_WAKER_PROCESSOR_SLEEP) = {}

\* the condition that ends the wait loop of line 132
SpinExit(w, mask) == And(w, mask) = {}

\* the value a write instruction stores, given the local it last read
StoredValue(I, local) ==
    IF I.op = "write" THEN I.val
    ELSE IF I.op = "write_or" THEN Or(local, I.val)
    ELSE IF I.op = "write_clear" THEN And(local, Not(I.val))
    ELSE Or(And(local, Not(I.mask)), I.val)

\* The machine as init sees it: d, r, ic the registers, tmp its local, log its
\* writes so far.  Exec is the machine after one register access (for the wait
\* loop: after one read of it).
Exec(st, I) ==
    IF I.op = "read" THEN [st EXCEPT !.tmp = read_volatile(st.d, st.r, I.reg)]
    ELSE IF I.op = "spin" THEN st
    ELSE IF I.op = "mcr" THEN
        [st EXCEPT !.ic = write_icc(st.ic, GICR_FRAME, I.reg[1], I.val),
                   !.log = Append(st.log, LogWrite(I.reg, I.val))]
    ELSE IF I.op = "isb" THEN [st EXCEPT !.log = Append(st.log, LogIsb)]
    ELSE [st EXCEPT !.d = write_gicd(st.d, I.reg, StoredValue(I, st.tmp)),
                    !.r = write_gicr(st.r, I.reg, StoredValue(I, st.tmp)),
                    !.log = Append(st.log, LogWrite(I.reg, StoredValue(I, st.tmp)))]

\* whether the access at I lets init go on to the next one
Proceeds(st, I) == I.op = "spin" => SpinExit(read_volatile(st.d, st.r, I.reg), I.mask)

\* an operation: the core that runs it, the id it is called with, its other
\* argument (a priority, a target list, a cpu id), its filter argument, its result
Op(name, core, id, arg, ret) ==
    [op |-> name, core |-> core, id |-> id, arg |-> arg, filter |-> 0, ret |-> ret]

\* no operation is running and none has just completed
Idle == Op("idle", 0, 0, 0, 0)

\* the boot core calls Gic::init()
InitCall ==
    /\ pc = 0 /\ last = Idle
    /\ pc' = 1
    /\ wlog' = << >>
    /\ last' = Op("init", GICR_FRAME, 0, 0, 0)
    /\ UNCHANGED <<gicd, gicr, icc, ap, tmp>>

\* one register access of Gic::init
InitStep ==
    /\ pc \in 1 .. Len(InitCode)
    /\ LET st == [d |-> gicd, r |-> gicr, ic |-> icc, tmp |-> tmp, log |-> wlog]
           n == Exec(st, InitCode[pc])
       IN /\ gicd' = n.d /\ gicr' = n.r /\ icc' = n.ic /\ tmp' = n.tmp /\ wlog' = n.log
          /\ pc' = IF Proceeds(st, InitCode[pc]) THEN pc + 1 ELSE pc
    /\ UNCHANGED <<ap, last>>

\* Gic::init returns
InitReturn ==
    /\ pc = Len(InitCode) + 1
    /\ pc' = 0
    /\ last' = [last EXCEPT !.ret = 1]
    /\ tmp' = {}
    /\ UNCHANGED <<gicd, gicr, icc, ap, wlog>>

\* a redistributor frame once the hardware has completed the wake handshake:
\* with ProcessorSleep clear it clears ChildrenAsleep
Woken(f) ==
    IF And(f[<<"GICR_WAKER", 0>>], GICR_WAKER_PROCESSOR_SLEEP) = {}
    THEN [f EXCEPT ![<<"GICR_WAKER", 0>>] = And(@, Not(GICR_WAKER_CHILDREN_ASLEEP))]
    ELSE f

HwWake ==
    /\ \E c \in Cores :
        /\ Woken(gicr[c]) # gicr[c]
        /\ gicr' = [gicr EXCEPT ![c] = Woken(@)]
    /\ UNCHANGED <<gicd, icc, ap, pc, tmp, wlog, last>>

\* the operation that has just completed returns to its caller
Return ==
    /\ pc = 0 /\ last # Idle
    /\ last' = Idle
    /\ wlog' = << >>
    /\ UNCHANGED <<gicd, gicr, icc, ap, pc, tmp>>

RECURSIVE RunFrom(_, _)
\* the machine when init, at access i, has run to its end, the hardware
\* completing the wake handshake while init waits for it
RunFrom(st, i) ==
    IF i > Len(InitCode) THEN st
    ELSE IF Proceeds(st, InitCode[i]) THEN RunFrom(Exec(st, InitCode[i]), i + 1)
    ELSE RunFrom([st EXCEPT !.r[GICR_FRAME] = Woken(@)], i + 1)

----------------------------------------------------------------------------
(* Initial states *)

\* priority bytes b3..b0 packed into a word
PriorityWord(b3, b2, b1, b0) ==
    Or(Or(Shl(W(b3), 24), Shl(W(b2), 16)), Or(Shl(W(b1), 8), W(b0)))

\* a redistributor frame out of reset: asleep, nothing enabled
ResetFrame ==
    [reg \in RedistRegs |->
        IF reg = <<"GICR_WAKER", 0>>
        THEN Or(GICR_WAKER_PROCESSOR_SLEEP, GICR_WAKER_CHILDREN_ASLEEP) ELSE {}]

\* a frame another core's bring-up has configured as init configures frame 0
\* out of reset: priority registers 0..3 and the timer's byte of register 7
ConfiguredFrame ==
    [reg \in RedistRegs |->
        IF reg = <<"GICR_IGROUPR0", 0>> THEN ALL_ONES
        ELSE IF reg = <<"GICR_ISENABLER0", 0>> THEN ALL_ONES
        ELSE IF reg[1] = "GICR_IPRIORITYR" /\ reg[2] \in 0 .. 3 THEN DefaultPriorityWord
        ELSE IF reg = timer_priority_reg
            THEN Shl(W(DEFAULT_SGI_PRIORITY), timer_byte_offset)
        ELSE {}]

ResetIcc == [reg \in SysRegs |-> {}]

ConfiguredIcc ==
    [reg \in SysRegs |->
        IF reg = "ICC_PMR" THEN W(255)
        ELSE IF reg = "ICC_IGRPEN1" THEN W(1)
        ELSE IF reg = "ICC_SRE" THEN W(7)
        ELSE {}]

\* what frame 0 may hold when the driver starts: out of reset or already
\* awake, with or without enable bits and priorities left by earlier software
BootFrames ==
    { [ResetFrame EXCEPT ![<<"GICR_WAKER", 0>>] = wk,
                         ![<<"GICR_ISENABLER0", 0>>] = en,
                         ![<<"GICR_IPRIORITYR", 7>>] = pr] :
        wk \in {Or(GICR_WAKER_PROCESSOR_SLEEP, GICR_WAKER_CHILDREN_ASLEEP), {}},
        en \in {{}, {3, 20}},
        pr \in {{}, PriorityWord(17, 34, 51, 68)} }

\* ICC_CTLR.EOImode is not defined out of reset
BootIccs == { [ResetIcc EXCEPT !["ICC_CTLR"] = ct] : ct \in {W(0), W(2)} }

\* the machine with frame 0 holding f and the boot core's CPU interface i
Machine(f, i) ==
    [d |-> [reg \in DistRegs |-> {}],
     r |-> [c \in Cores |-> IF c = GICR_FRAME THEN f ELSE ConfiguredFrame],
     ic |-> [c \in Cores |-> IF c = GICR_FRAME THEN i ELSE ConfiguredIcc],
     tmp |-> {}, log |-> << >>]

StartsAt(m) ==
    /\ gicd = m.d /\ gicr = m.r /\ icc = m.ic
    /\ ap = [c \in Cores |-> << >>]
    /\ pc = 0
    /\ tmp = {}
    /\ wlog = << >>
    /\ last = Idle

\* the driver starts on a machine nothing has configured
Init == \E f \in BootFrames, i \in BootIccs : StartsAt(Machine(f, i))

\* the driver starts out of reset
InitReset == \E i \in BootIccs : StartsAt(Machine(ResetFrame, i))

\* the boot core has run Gic::init() once
InitDone == \E i \in BootIccs : StartsAt(RunFrom(Machine(ResetFrame, i), 1))

----------------------------------------------------------------------------
(* The per-SGI operations on the redistributor (run by the boot core) *)

\* the inputs the operations are called with
SgiIdInputs == {5, 15, 16, 255}
SendIdInputs == {4, 5, 16}
\* the ids sent where the pending SGIs are not what is looked at
FewSendIdInputs == {5, 16}
PriorityInputs == {64, 255}
TargetListInputs == {0, 2, 4, 65535}
CpuIdInputs == {0, 1, 2, 16}
FilterInputs == {SGI_TARGET_LIST, SGI_TARGET_ALL_EXCEPT_SELF, SGI_TARGET_SELF}

\* the range check off by one
IdRejected_OffByOne(id) == id > MAX_SGI_ID + 1

\* `if sgi_id > 15 { return; }`
IdRejected(id) == id > MAX_SGI_ID

\* the register writes (and barriers) of each operation, in program order,
\* given the registers it reads
enable_sgi(d, r, sgi_id) ==
    IF IdRejected(sgi_id) THEN << >>
    ELSE LET mask == Shl(W(1), sgi_id)
             current == read_volatile(d, r, <<"GICR_ISENABLER0", 0>>)
         IN << LogWrite(<<"GICR_ISENABLER0", 0>>, Or(current, mask)) >>

\* disable_sgi writing the set-enable register
disable_sgi_SetEnable(sgi_id) ==
    IF IdRejected(sgi_id) THEN << >>
    ELSE << LogWrite(<<"GICR_ISENABLER0", 0>>, Shl(W(1), sgi_id)) >>

\* disable_sgi writing the complement of the mask
disable_sgi_InvertedMask(sgi_id) ==
    IF IdRejected(sgi_id) THEN << >>
    ELSE << LogWrite(<<"GICR_ICENABLER0", 0>>, Not(Shl(W(1), sgi_id))) >>

disable_sgi(sgi_id) ==
    IF IdRejected(sgi_id) THEN << >>
    ELSE << LogWrite(<<"GICR_ICENABLER0", 0>>, Shl(W(1), sgi_id)) >>

clear_sgi_pending(sgi_id) ==
    IF IdRejected(sgi_id) THEN << >>
    ELSE << LogWrite(<<"GICR_ICPENDR0", 0>>, Shl(W(1), sgi_id)) >>

clear_pending_sgi(sgi_id) ==
    IF IdRejected(sgi_id) THEN << >>
    ELSE << LogWrite(<<"GICR_ICENABLER0", 0>>, Shl(W(1), sgi_id)) >>

\* set_sgi_priority not clearing the old priority
set_sgi_priority_KeepsOldBits(d, r, sgi_id, priority) ==
    IF IdRejected(sgi_id) THEN << >>
    ELSE LET reg_index == sgi_id \div 4
             byte_offset == (sgi_id % 4) * 8
             current == read_volatile(d, r, <<"GICR_IPRIORITYR", reg_index>>)
         IN << LogWrite(<<"GICR_IPRIORITYR", reg_index>>,
                        Or(current, Shl(W(priority), byte_offset))) >>

set_sgi_priority(d, r, sgi_id, priority) ==
    IF IdRejected(sgi_id) THEN << >>
    ELSE LET reg_index == sgi_id \div 4
             byte_offset == (sgi_id % 4) * 8
             current == read_volatile(d, r, <<"GICR_IPRIORITYR", reg_index>>)
             mask == Shl(W(255), byte_offset)
         IN << LogWrite(<<"GICR_IPRIORITYR", reg_index>>,
                        Or(And(current, Not(mask)), Shl(W(priority), byte_offset))) >>

\* Gic::is_sgi_enabled
is_sgi_enabled(d, r, sgi_id) ==
    IF sgi_id > MAX_SGI_ID THEN FALSE
    ELSE And(read_volatile(d, r, <<"GICR_ISENABLER0", 0>>), Shl(W(1), sgi_id)) # {}

RECURSIVE ApplyWrites(_, _)
\* the redistributor frames after the memory-mapped writes of a log
ApplyWrites(r, log) ==
    IF log = << >> THEN r
    ELSE ApplyWrites(IF Head(log).k = "w" THEN write_gicr(r, Head(log).reg, Head(log).val)
                     ELSE r, Tail(log))

\* the boot core runs one memory-mapped operation to its end
MmioOp(name, id, arg, log) ==
    /\ pc = 0 /\ last = Idle
    /\ gicr' = ApplyWrites(gicr, log)
    /\ wlog' = log
    /\ last' = Op(name, GICR_FRAME, id, arg, 0)
    /\ UNCHANGED <<gicd, icc, ap, pc, tmp>>

EnableSgi == \E id \in SgiIdInputs : MmioOp("enable_sgi", id, 0, enable_sgi(gicd, gicr, id))
DisableSgi == \E id \in SgiIdInputs : MmioOp("disable_sgi", id, 0, disable_sgi(id))
ClearSgiPending ==
    \E id \in SgiIdInputs : MmioOp("clear_sgi_pending", id, 0, clear_sgi_pending(id))
ClearPendingSgi ==
    \E id \in SgiIdInputs : MmioOp("clear_pending_sgi", id, 0, clear_pending_sgi(id))
SetSgiPriority ==
    \E id \in SgiIdInputs, p \in PriorityInputs :
        MmioOp("set_sgi_priority", id, p, set_sgi_priority(gicd, gicr, id, p))

----------------------------------------------------------------------------
(* enable_sgi step by step, an interrupt handler of the same core running
   disable_sgi between its read and its write *)

RaceIdInputs == {3, 5, 9, 15, 16}

\* the write of enable_sgi, given the value `current` it has read
enable_sgi_write(current, sgi_id) ==
    LET mask == Shl(W(1), sgi_id)
    IN LogWrite(<<"GICR_ISENABLER0", 0>>, Or(current, mask))

\* enable_sgi up to and including `let current = read_volatile(GICR_ISENABLER0)`
EnableSgiRead ==
    /\ pc = 0 /\ last = Idle
    /\ \E id \in RaceIdInputs :
        /\ last' = Op("enable_sgi", GICR_FRAME, id, 0, 0)
        /\ IF IdRejected(id)
           THEN pc' = 0 /\ tmp' = tmp
           ELSE pc' = 1 /\ tmp' = read_volatile(gicd, gicr, <<"GICR_ISENABLER0", 0>>)
    /\ wlog' = << >>
    /\ UNCHANGED <<gicd, gicr, icc, ap>>

\* an interrupt is taken between the read and the write: its handler runs
\* disable_sgi to its end and returns to enable_sgi
HandlerDisableSgi ==
    /\ pc = 1 /\ last.op = "enable_sgi" /\ wlog = << >>
    /\ \E j \in RaceIdInputs :
        /\ gicr' = ApplyWrites(gicr, disable_sgi(j))
        /\ wlog' = disable_sgi(j)
    /\ UNCHANGED <<gicd, icc, ap, pc, tmp, last>>

\* `write_volatile(GICR_ISENABLER0, current | mask)` and the return of enable_sgi
EnableSgiWrite ==
    /\ pc = 1 /\ last.op = "enable_sgi"
    /\ LET e == enable_sgi_write(tmp, last.id) IN
        /\ gicr' = write_gicr(gicr, e.reg, e.val)
        /\ wlog' = Append(wlog, e)
    /\ pc' = 0
    /\ tmp' = {}
    /\ last' = [last EXCEPT !.ret = 1]
    /\ UNCHANGED <<gicd, icc, ap>>

----------------------------------------------------------------------------
(* SGI messaging *)

\* Gic::send_sgi: the routing word written to ICC_SGI1R, then the barrier
send_sgi(sgi_id, target_list, filter) ==
    IF IdRejected(sgi_id) THEN << >>
    ELSE LET irm == IF filter = SGI_TARGET_ALL_EXCEPT_SELF THEN Shl(W(1), 24) ELSE W(0)
             val == Or(Or(irm, Shl(W(target_list), 0)), Shl(W(sgi_id), 24))
         IN << LogWrite64(<<"ICC_SGI1R", 0>>, val, W(0)), LogIsb >>

send_sgi_to_cpu(sgi_id, cpu_id) ==
    IF cpu_id > 15 THEN << >>
    ELSE LET target_mask == Val(And(Shl(W(1), cpu_id), W(65535)))
         IN send_sgi(sgi_id, target_mask, SGI_TARGET_LIST)

send_sgi_to_all_except_self(sgi_id) == send_sgi(sgi_id, 0, SGI_TARGET_ALL_EXCEPT_SELF)

\* send_sgi_to_self returning without a barrier
send_sgi_to_self_NoBarrier(sgi_id) ==
    IF IdRejected(sgi_id) THEN << >>
    ELSE LET target_list == W(1)
             val == Or(Shl(target_list, 0), Shl(W(sgi_id), 24))
         IN << LogWrite64(<<"ICC_SGI1R", 0>>, val, W(0)) >>

send_sgi_to_self(sgi_id) ==
    IF IdRejected(sgi_id) THEN << >>
    ELSE LET target_list == W(1)
             val == Or(Shl(target_list, 0), Shl(W(sgi_id), 24))
         IN << LogWrite64(<<"ICC_SGI1R", 0>>, val, W(0)), LogIsb >>

\* The fields of a routing word, as the driver lays them out (gic.rs:388-399):
\* the SGI id in the top byte, the routing-mode bit 1 << 24, the target list
\* in the low 16 bits.
RoutingId(val) == Val(And(Shr(val, 24), W(255)))
RoutingMode(val) == And(val, Shl(W(1), 24)) # {}
RoutingTargets(val) == Val(And(val, W(65535)))

\* the cores a routing word written by core c addresses
SgiReceivers(c, val) ==
    IF RoutingMode(val) THEN Cores \ {c}
    ELSE {t \in Cores : t \in And(val, W(65535))}

RECURSIVE Deliver(_, _, _)
\* the redistributor frames after the interrupt controller has taken the
\* ICC_SGI1R writes of a log issued by core c: the SGI is pending on each receiver
Deliver(r, c, log) ==
    IF log = << >> THEN r
    ELSE LET e == Head(log)
             r1 == IF e.k = "w" /\ e.reg = <<"ICC_SGI1R", 0>> /\ RoutingId(e.val) <= MAX_SGI_ID
                   THEN [t \in Cores |->
                            IF t \in SgiReceivers(c, e.val)
                            THEN [r[t] EXCEPT ![<<"GICR_ISPENDR0", 0>>] =
                                      Or(@, Shl(W(1), RoutingId(e.val)))]
                            ELSE r[t]]
                   ELSE r
         IN Deliver(r1, c, Tail(log))

\* core c runs one send operation to its end
SendOp(name, c, id, arg, filter, log) ==
    /\ pc = 0 /\ last = Idle
    /\ gicr' = Deliver(gicr, c, log)
    /\ wlog' = log
    /\ last' = [Op(name, c, id, arg, 0) EXCEPT !.filter = filter]
    /\ UNCHANGED <<gicd, icc, ap, pc, tmp>>

SendSgi(ids) ==
    \E c \in Cores, id \in ids, tl \in TargetListInputs, f \in FilterInputs :
        SendOp("send_sgi", c, id, tl, f, send_sgi(id, tl, f))
SendSgiToCpu(ids) ==
    \E c \in Cores, id \in ids, cpu \in CpuIdInputs :
        SendOp("send_sgi_to_cpu", c, id, cpu, SGI_TARGET_LIST, send_sgi_to_cpu(id, cpu))
SendSgiToAllExceptSelf(ids) ==
    \E c \in Cores, id \in ids :
        SendOp("send_sgi_to_all_except_self", c, id, 0, SGI_TARGET_ALL_EXCEPT_SELF,
               send_sgi_to_all_except_self(id))
SendSgiToSelf(ids) ==
    \E c \in Cores, id \in ids :
        SendOp("send_sgi_to_self", c, id, 0, SGI_TARGET_SELF, send_sgi_to_self(id))

----------------------------------------------------------------------------
(* The CPU interface: acknowledge, end of interrupt, deactivate *)

PrivateIds == 0 .. 31

\* the configured priority of a private interrupt of core c
PriorityOf(r, c, id) == ByteOf(r[c][<<"GICR_IPRIORITYR", id \div 4>>], id % 4)

\* ICC_RPR: the priority of the interrupt being serviced, 0xFF when none is
RunningPriority(a, c) == IF a[c] = << >> THEN 255 ELSE a[c][Len(a[c])].prio

\* EOImode of ICC_CTLR (bit 1): 0 when one EOI write drops priority and deactivates
EOImode(ic, c) == IF 1 \in ic[c]["ICC_CTLR"] THEN 1 ELSE 0

\* the private interrupts the interrupt controller signals to core c
Signalled(d, r, ic, a, c) ==
    {x \in PrivateIds :
        /\ x \in r[c][<<"GICR_ISPENDR0", 0>>]
        /\ x \notin r[c][<<"GICR_ISACTIVER0", 0>>]
        /\ x \in r[c][<<"GICR_ISENABLER0", 0>>]
        /\ x \in r[c][<<"GICR_IGROUPR0", 0>>]
        /\ And(r[c][<<"GICR_WAKER", 0>>],
               Or(GICR_WAKER_PROCESSOR_SLEEP, GICR_WAKER_CHILDREN_ASLEEP)) = {}
        /\ And(d[<<"GICD_CTLR", 0>>], GICD_CTLR_ENABLE_GRP1) # {}
        /\ And(ic[c]["ICC_IGRPEN1"], W(1)) # {}
        /\ PriorityOf(r, c, x) < Val(ic[c]["ICC_PMR"])
        /\ PriorityOf(r, c, x) < RunningPriority(a, c)}

\* the interrupt a read of ICC_IAR1 returns: the signalled one of highest
\* priority (lowest value, then lowest id), 1023 when there is none
HighestPending(d, r, ic, a, c) ==
    LET S == Signalled(d, r, ic, a, c) IN
    IF S = {} THEN 1023
    ELSE CHOOSE x \in S : \A y \in S :
            \/ PriorityOf(r, c, x) < PriorityOf(r, c, y)
            \/ PriorityOf(r, c, x) = PriorityOf(r, c, y) /\ x <= y

\* get_interrupt_id keeping the bits up to the originating-core field
get_interrupt_id_ThirteenBits(iar) == Val(And(W(iar), W(8191)))

\* Gic::get_interrupt_id
get_interrupt_id(iar) == Val(And(W(iar), W(1023)))

\* the acknowledge values get_interrupt_id is called with: an interrupt id in
\* bits [9:0], an originating core in bits [12:10], bits above them
IarInputs ==
    {id + (1024 * src) + hi : id \in (0 .. 15) \cup {30, 1020, 1023},
                              src \in 0 .. 7,
                              hi \in {0, 8192, 2 ^ 30}}

GetInterruptId ==
    /\ pc = 0 /\ last = Idle
    /\ \E c \in Cores, iar \in IarInputs :
            last' = Op("get_interrupt_id", c, 0, iar, get_interrupt_id(iar))
    /\ wlog' = << >>
    /\ UNCHANGED <<gicd, gicr, icc, ap, pc, tmp>>

\* Gic::read_interrupt_ack on core c: the read of ICC_IAR1 acknowledges the
\* interrupt it returns, which goes from pending to active
ReadInterruptAck ==
    \E c \in Cores :
        /\ pc = 0 /\ last = Idle
        /\ LET iar == HighestPending(gicd, gicr, icc, ap, c) IN
            /\ last' = Op("read_interrupt_ack", c, 0, 0, iar)
            /\ IF iar = 1023 THEN UNCHANGED <<gicr, ap>>
               ELSE /\ gicr' = [gicr EXCEPT
                            ![c][<<"GICR_ISPENDR0", 0>>] = And(@, Not(Shl(W(1), iar))),
                            ![c][<<"GICR_ISACTIVER0", 0>>] = Or(@, Shl(W(1), iar))]
                    /\ ap' = [ap EXCEPT ![c] = Append(@,
                            [id |-> iar, prio |-> PriorityOf(gicr, c, iar),
                             prev |-> RunningPriority(ap, c)])]
        /\ wlog' = << >>
        /\ UNCHANGED <<gicd, icc, pc, tmp>>

\* Gic::write_end_of_interrupt_group1
write_end_of_interrupt_group1(interrupt_id) ==
    << LogWrite(<<SysRegOf(12, 12, 1), 0>>, W(interrupt_id)), LogIsb >>

\* Gic::write_deactivate_interrupt
write_deactivate_interrupt(interrupt_id) ==
    << LogWrite(<<SysRegOf(12, 11, 1), 0>>, W(interrupt_id)), LogIsb >>

\* what a write of an interrupt id to ICC_EOIR1 or ICC_DIR does on core c
DropsPriority(reg) == reg = <<"ICC_EOIR1", 0>>
Deactivates(ic, c, reg) ==
    \/ reg = <<"ICC_EOIR1", 0>> /\ EOImode(ic, c) = 0
    \/ reg = <<"ICC_DIR", 0>> /\ EOImode(ic, c) = 1

\* core c completes an interrupt: the operation's register write takes effect
CompleteOp(name, c, id, log) ==
    /\ pc = 0 /\ last = Idle
    /\ LET e == log[1] IN
        /\ ap' = IF DropsPriority(e.reg) /\ ap[c] # << >>
                 THEN [ap EXCEPT ![c] = SubSeq(@, 1, Len(@) - 1)] ELSE ap
        /\ gicr' = IF Deactivates(icc, c, e.reg) /\ Val(e.val) \in PrivateIds
                   THEN [gicr EXCEPT ![c][<<"GICR_ISACTIVER0", 0>>] = And(@, Not(Shl(W(1), Val(e.val))))]
                   ELSE gicr
    /\ wlog' = log
    /\ last' = Op(name, c, id, 0, 0)
    /\ UNCHANGED <<gicd, icc, pc, tmp>>

\* the caller passes an interrupt it has acknowledged
WriteEndOfInterruptGroup1 ==
    \E c \in Cores : \E id \in gicr[c][<<"GICR_ISACTIVER0", 0>>] :
        CompleteOp("write_end_of_interrupt_group1", c, id, write_end_of_interrupt_group1(id))

WriteDeactivateInterrupt ==
    \E c \in Cores : \E id \in gicr[c][<<"GICR_ISACTIVER0", 0>>] :
        CompleteOp("write_deactivate_interrupt", c, id, write_deactivate_interrupt(id))

----------------------------------------------------------------------------
(* Writes of the CPU interface control registers by a caller *)

\* system::write_icc_sre(value)
write_icc_sre(value) == << Mcr(12, 12, 5, value, 6), Isb(7) >>

\* the values the two functions are called with
IccCtlrInputs == {W(0), W(2)}
IccSreInputs == {W(0), W(5), W(7)}

RECURSIVE ExecIcc(_, _, _)
\* the CPU interface registers and the log after core c has executed the
\* mcr and isb instructions of `code`
ExecIcc(st, c, code) ==
    IF code = << >> THEN st
    ELSE LET I == Head(code)
             n == IF I.op = "mcr"
                  THEN [ic |-> write_icc(st.ic, c, I.reg[1], I.val),
                        log |-> Append(st.log, LogWrite(I.reg, I.val))]
                  ELSE [st EXCEPT !.log = Append(st.log, LogIsb)]
         IN ExecIcc(n, c, Tail(code))

\* core c runs one of the two functions to its end
IccOp(name, c, value, code) ==
    /\ pc = 0 /\ last = Idle
    /\ LET n == ExecIcc([ic |-> icc, log |-> << >>], c, code) IN
        /\ icc' = n.ic
        /\ wlog' = n.log
    /\ last' = Op(name, c, 0, Val(value), 0)
    /\ UNCHANGED <<gicd, gicr, ap, pc, tmp>>

\* a core among cs calls Gic::write_icc_ctlr
WriteIccCtlr(cs) ==
    \E c \in cs, v \in IccCtlrInputs : IccOp("write_icc_ctlr", c, v, write_icc_ctlr(v, 326))

\* a core among cs calls write_icc_sre
WriteIccSre(cs) ==
    \E c \in cs, v \in IccSreInputs : IccOp("write_icc_sre", c, v, write_icc_sre(v))

----------------------------------------------------------------------------
(* The type register *)

\* Gic::read_typer
read_typer(d, r) == read_volatile(d, r, <<"GICD_TYPER", 0>>)

\* get_num_interrupts masking six bits of the type register
get_num_interrupts_SixBitField(d, r) ==
    LET typer == read_typer(d, r)
        it_lines == Val(And(typer, W(63)))
    IN (it_lines + 1) * 32

\* Gic::get_num_interrupts
get_num_interrupts(d, r) ==
    LET typer == read_typer(d, r)
        it_lines == Val(And(typer, W(31)))
    IN (it_lines + 1) * 32

\* the values the type register may hold: every line-count field, with and
\* without bits above it
TyperInputs == {lo \cup hi : lo \in SUBSET (0 .. 4), hi \in {{}, {5}, {31}, {5, 8, 31}}}

\* an initialised system whose type register holds any of these values
InitTyper ==
    \E i \in BootIccs, t \in TyperInputs :
        LET m == RunFrom(Machine(ResetFrame, i), 1)
        IN StartsAt([m EXCEPT !.d[<<"GICD_TYPER", 0>>] = t])

GetNumInterrupts ==
    /\ pc = 0 /\ last = Idle
    /\ last' = Op("get_num_interrupts", GICR_FRAME, 0, 0, get_num_interrupts(gicd, gicr))
    /\ wlog' = << >>
    /\ UNCHANGED <<gicd, gicr, icc, ap, pc, tmp>>

----------------------------------------------------------------------------
(* The specifications *)

\* Gic::init, one register access at a time, against the wake handshake
NextInit == InitCall \/ InitStep \/ InitReturn \/ HwWake \/ Return

SpecInit == Init /\ [][NextInit]_vars

\* Gic::init where the boot core keeps executing; the hardware may complete
\* the wake handshake or never do so
SpecInitFair == Init /\ [][NextInit]_vars /\ WF_vars(InitStep) /\ WF_vars(InitReturn)

\* the driver's operations on the registers, in any order
Next ==
    \/ InitCall \/ InitStep \/ InitReturn \/ HwWake \/ Return
    \/ EnableSgi \/ DisableSgi \/ ClearSgiPending \/ ClearPendingSgi \/ SetSgiPriority
    \/ SendSgi(FewSendIdInputs) \/ SendSgiToCpu(FewSendIdInputs)
    \/ SendSgiToAllExceptSelf(FewSendIdInputs) \/ SendSgiToSelf(FewSendIdInputs)

Spec == InitReset /\ [][Next]_vars

\* SGI messaging between the cores of an initialised system
NextSgi ==
    \/ SendSgi(SendIdInputs) \/ SendSgiToCpu(SendIdInputs)
    \/ SendSgiToAllExceptSelf(SendIdInputs) \/ SendSgiToSelf(SendIdInputs)
    \/ ReadInterruptAck \/ WriteEndOfInterruptGroup1 \/ Return

SpecSgi == InitDone /\ [][NextSgi]_vars

\* the interrupt lifecycle on an initialised system
NextIrq ==
    \/ SetSgiPriority \/ SendSgiToSelf(SendIdInputs)
    \/ ReadInterruptAck \/ WriteEndOfInterruptGroup1 \/ WriteDeactivateInterrupt \/ Return
    \/ WriteIccCtlr({GICR_FRAME})

SpecIrq == InitDone /\ [][NextIrq]_vars

\* reading the interrupt count, among enabling and disabling SGIs
NextTyper == GetNumInterrupts \/ EnableSgi \/ DisableSgi \/ Return

SpecTyper == InitTyper /\ [][NextTyper]_vars

\* the CPU interfaces under writes of their control registers: the interrupt
\* lifecycle in either EOI mode
NextCpuIf ==
    \/ WriteIccCtlr(Cores) \/ WriteIccSre(Cores)
    \/ SendSgiToSelf(FewSendIdInputs) \/ SendSgiToAllExceptSelf(FewSendIdInputs)
    \/ ReadInterruptAck \/ WriteEndOfInterruptGroup1 \/ WriteDeactivateInterrupt \/ Return

SpecCpuIf == InitDone /\ [][NextCpuIf]_vars

\* extracting the interrupt id from acknowledge values
NextIar == GetInterruptId \/ Return

SpecIar == InitDone /\ [][NextIar]_vars

\* enable_sgi interrupted by a handler that disables an SGI
NextRace == EnableSgiRead \/ HandlerDisableSgi \/ EnableSgiWrite \/ DisableSgi \/ Return

SpecRace == InitDone /\ [][NextRace]_vars

----------------------------------------------------------------------------
(* The claims *)

IsWrite(e) == e.k = "w"

\* the register writes of the operation running or last run
Writes == SelectSeq(wlog, IsWrite)

\* The phase of init a register write belongs to: 1 distributor disable,
\* 2 distributor tables, 3 redistributor wake, 4 private interrupts,
\* 5 CPU interface, 6 distributor enable.
PhaseOf(e) ==
    IF e.reg = <<"GICD_CTLR", 0>>
        THEN IF And(e.val, Or(GICD_CTLR_ENABLE_GRP0, GICD_CTLR_ENABLE_GRP1)) = {} THEN 1 ELSE 6
    ELSE IF e.reg[1] \in {"GICD_IGROUPR0", "GICD_IPRIORITYR"} THEN 2
    ELSE IF e.reg[1] = "GICR_WAKER" THEN 3
    ELSE IF e.reg[1] \in {"GICR_IGROUPR0", "GICR_ISENABLER0", "GICR_ICENABLER0",
                          "GICR_ICPENDR0", "GICR_IPRIORITYR"} THEN 4
    ELSE 5

ChildrenAsleep == And(gicr[GICR_FRAME][<<"GICR_WAKER", 0>>], GICR_WAKER_CHILDREN_ASLEEP) # {}
ProcessorSleep == And(gicr[GICR_FRAME][<<"GICR_WAKER", 0>>], GICR_WAKER_PROCESSOR_SLEEP) # {}

\* C1: the register writes of Gic::init come in the phase order distributor
\* disable, distributor tables, redistributor wake, private interrupts, CPU
\* interface, distributor enable: no write of a later phase precedes a write of
\* an earlier one, the private-interrupt writes come only once the wait for
\* ChildrenAsleep = 0 is over, and when init returns every phase has written
\* and the distributor-enable write is its last register write.
C1_InitPhaseOrder ==
    last.op = "init" =>
        LET w == Writes IN
        /\ \A i, j \in 1 .. Len(w) : i < j => PhaseOf(w[i]) <= PhaseOf(w[j])
        /\ (\E i \in 1 .. Len(w) : PhaseOf(w[i]) >= 4) =>
                (pc = 0 \/ (pc > 1 /\ \E k \in 1 .. pc - 1 : InitCode[k].op = "spin"))
        /\ last.ret = 1 =>
                /\ {PhaseOf(w[i]) : i \in 1 .. Len(w)} = 1 .. 6
                /\ PhaseOf(w[Len(w)]) = 6
                /\ Cardinality({i \in 1 .. Len(w) : PhaseOf(w[i]) = 6}) = 1

\* init has returned, its writes all made
C1_Witness == last.op = "init" /\ last.ret = 1 /\ pc = 0 /\ Len(Writes) > 20

\* C2: while the hardware holds ChildrenAsleep set, init has written no
\* private-interrupt register, no CPU interface register and no enable bit of
\* GICD_CTLR, and has not written GICD_CTLR at all since it cleared
\* ProcessorSleep; the write that sets the distributor's enable bits comes
\* after the write that clears ProcessorSleep.
C2_BlockedWhileChildrenAsleep ==
    last.op = "init" =>
        LET w == Writes IN
        /\ ChildrenAsleep =>
            \A i \in 1 .. Len(w) :
                /\ PhaseOf(w[i]) <= 3
                /\ w[i].reg = <<"GICD_CTLR", 0>> =>
                        \A j \in 1 .. i : w[j].reg # <<"GICR_WAKER", 0>>
        /\ \A i \in 1 .. Len(w) :
            PhaseOf(w[i]) = 6 =>
                \E j \in 1 .. i : /\ w[j].reg = <<"GICR_WAKER", 0>>
                                  /\ And(w[j].val, GICR_WAKER_PROCESSOR_SLEEP) = {}

\* init has cleared ProcessorSleep and waits: the hardware still holds ChildrenAsleep
C2_Witness ==
    /\ last.op = "init" /\ pc \in 1 .. Len(InitCode)
    /\ InitCode[pc].op = "spin"
    /\ ChildrenAsleep /\ ~ProcessorSleep

\* C3: right after enable_sgi(id), id in 0..15, is_sgi_enabled(id) is true,
\* and right after disable_sgi(id) it is false, whatever ran before.
C3_EnableDisableReadBack ==
    /\ (last.op = "enable_sgi" /\ last.id <= 15) => is_sgi_enabled(gicd, gicr, last.id)
    /\ (last.op = "disable_sgi" /\ last.id <= 15) => ~is_sgi_enabled(gicd, gicr, last.id)

\* SGI 15 has been disabled after init had enabled it, SGI 5 being disabled too
C3_Witness ==
    /\ last.op = "disable_sgi" /\ last.id = 15
    /\ gicd[<<"GICD_CTLR", 0>>] # {}
    /\ ~is_sgi_enabled(gicd, gicr, 5)

\* the operation just run was called with an id out of range
Rejected(l) ==
    \/ /\ l.op \in {"enable_sgi", "disable_sgi", "clear_sgi_pending", "clear_pending_sgi",
                    "set_sgi_priority", "send_sgi", "send_sgi_to_cpu",
                    "send_sgi_to_all_except_self", "send_sgi_to_self"}
       /\ l.id > 15
    \/ l.op = "send_sgi_to_cpu" /\ l.arg > 15

\* C4: an operation called with an SGI id above 15 (for send_sgi_to_cpu also: a
\* cpu id above 15) writes no register: every register of the distributor, of the
\* redistributors and of the CPU interfaces is as before the call, and no SGI
\* is pending that was not.
C4_RejectedWritesNothing ==
    [][(last = Idle /\ Rejected(last')) =>
            /\ wlog' = << >>
            /\ gicd' = gicd /\ gicr' = gicr /\ icc' = icc /\ ap' = ap]_vars

\* send_sgi_to_cpu was called with a valid SGI id and cpu id 16, SGI 15 being disabled
C4_Witness ==
    /\ last.op = "send_sgi_to_cpu" /\ last.id = 5 /\ last.arg = 16
    /\ ~is_sgi_enabled(gicd, gicr, 15)

\* C5: a pending-clear operation on an SGI id in 0..15 writes the pending-clear
\* register only, and leaves every enable bit as it was.
C5_PendingClearKeepsEnable ==
    [][(/\ last = Idle
        /\ last'.op \in {"clear_sgi_pending", "clear_pending_sgi"}
        /\ last'.id <= 15) =>
            /\ \A i \in 1 .. Len(wlog') :
                    wlog'[i].k = "w" => wlog'[i].reg = <<"GICR_ICPENDR0", 0>>
            /\ gicr'[GICR_FRAME][<<"GICR_ISENABLER0", 0>>]
                    = gicr[GICR_FRAME][<<"GICR_ISENABLER0", 0>>]
            /\ is_sgi_enabled(gicd', gicr', last'.id) = is_sgi_enabled(gicd, gicr, last'.id)]_vars

\* the routing word the send operation just run has written to ICC_SGI1R
RoutingWord == (CHOOSE i \in 1 .. Len(wlog) : wlog[i].reg = <<"ICC_SGI1R", 0>>)
IssuedWord == wlog[RoutingWord].val
HasIssued == \E i \in 1 .. Len(wlog) : wlog[i].reg = <<"ICC_SGI1R", 0>>

Pending(r, c) == r[c][<<"GICR_ISPENDR0", 0>>]
Active(r, c) == r[c][<<"GICR_ISACTIVER0", 0>>]

\* C6: the routing word send_sgi issues for an id in 0..15 has its
\* routing-mode bit set exactly when the filter is all-except-self.
C6_RoutingModeBit ==
    (last.op = "send_sgi" /\ last.id <= 15) =>
        /\ HasIssued
        /\ RoutingMode(IssuedWord) <=> (last.filter = SGI_TARGET_ALL_EXCEPT_SELF)

\* C7: the top byte of the routing word send_sgi issues for an id in 0..15 is
\* that id, whatever the filter and the target list, and with the target-list
\* filter its low 16 bits are the target list.
C7_RoutingIdAndTargets ==
    (last.op = "send_sgi" /\ last.id <= 15) =>
        /\ HasIssued
        /\ RoutingId(IssuedWord) = last.id
        /\ last.filter = SGI_TARGET_LIST => RoutingTargets(IssuedWord) = last.arg

\* C8: a self-mode send of an SGI id in 0..15 by core c (send_sgi with
\* SGI_TARGET_SELF, send_sgi_to_self) makes the SGI pending on core c and
\* changes the pending interrupts of no other core.
C8_SelfSendStaysOnSender ==
    [][(/\ last = Idle
        /\ \/ last'.op = "send_sgi" /\ last'.filter = SGI_TARGET_SELF
           \/ last'.op = "send_sgi_to_self"
        /\ last'.id <= 15) =>
            /\ last'.id \in Pending(gicr', last'.core)
            /\ \A t \in Cores \ {last'.core} : Pending(gicr', t) = Pending(gicr, t)]_vars

\* the target list a target-list send addresses
TargetMaskOf(l) == IF l.op = "send_sgi_to_cpu" THEN Shl(W(1), l.arg) ELSE W(l.arg)

\* C9: a target-list send of SGI id with mask M makes id pending on exactly
\* the cores whose bit is set in M, an all-except-self send on every core but
\* the sender, whatever its target list; no other interrupt becomes pending, so
\* the id a receiver acknowledges is the id sent.
C9_ReceiversFollowMode ==
    [][(/\ last = Idle
        /\ last'.op \in {"send_sgi", "send_sgi_to_cpu", "send_sgi_to_all_except_self"}
        /\ last'.filter \in {SGI_TARGET_LIST, SGI_TARGET_ALL_EXCEPT_SELF}
        /\ last'.id <= 15
        /\ last'.op = "send_sgi_to_cpu" => last'.arg <= 15) =>
            LET to == IF last'.filter = SGI_TARGET_ALL_EXCEPT_SELF
                      THEN Cores \ {last'.core}
                      ELSE {t \in Cores : t \in TargetMaskOf(last')}
            IN \A t \in Cores :
                Pending(gicr', t) = IF t \in to THEN Or(Pending(gicr, t), Shl(W(1), last'.id))
                                    ELSE Pending(gicr, t)]_vars

\* the value of ICC_CTLR init selects: that of its last write of the register
InitSelectedCtlr ==
    LET ks == {k \in 1 .. Len(InitCode) :
                    InitCode[k].op = "mcr" /\ InitCode[k].reg = <<"ICC_CTLR", 0>>}
        k == CHOOSE k \in ks : \A j \in ks : j <= k
    IN And(InitCode[k].val, SysRegMask("ICC_CTLR"))

\* C10: on a core init has run on, with X the interrupt the CPU interface
\* signals (enabled, pending, of a priority below the priority mask and below
\* the running priority): read_interrupt_ack returns X, X is no longer pending
\* but active, and the running priority is X's configured priority; then,
\* ICC_CTLR holding what init has selected, write_end_of_interrupt_group1(X)
\* alone, X not asserted again meanwhile, leaves X neither active nor pending
\* and the running priority what it was before the acknowledge.
C10_AckEoiRoundTrip ==
    [][/\ (last = Idle /\ last'.op = "read_interrupt_ack"
                /\ Signalled(gicd, gicr, icc, ap, last'.core) # {}) =>
            LET c == last'.core
                X == last'.ret
            IN /\ X \in Signalled(gicd, gicr, icc, ap, c)
               /\ \A y \in Signalled(gicd, gicr, icc, ap, c) :
                        PriorityOf(gicr, c, X) <= PriorityOf(gicr, c, y)
               /\ X \notin Pending(gicr', c) /\ X \in Active(gicr', c)
               /\ RunningPriority(ap', c) = PriorityOf(gicr, c, X)
       /\ (last = Idle /\ last'.op = "write_end_of_interrupt_group1"
                /\ ap[last'.core] # << >>
                /\ ap[last'.core][Len(ap[last'.core])].id = last'.id
                /\ last'.id \notin Pending(gicr, last'.core)
                /\ icc[last'.core]["ICC_CTLR"] = InitSelectedCtlr) =>
            LET c == last'.core
                X == last'.id
            IN /\ X \notin Active(gicr', c) /\ X \notin Pending(gicr', c)
               /\ RunningPriority(ap', c) = ap[c][Len(ap[c])].prev]_vars

\* the end of interrupt of an SGI that had preempted another one: the running
\* priority is back at the priority of the preempted one, which is still active
C10_Witness ==
    /\ last.op = "write_end_of_interrupt_group1" /\ last.core = GICR_FRAME
    /\ last.id \notin Active(gicr, GICR_FRAME) /\ last.id \notin Pending(gicr, GICR_FRAME)
    /\ Len(ap[GICR_FRAME]) = 1
    /\ RunningPriority(ap, GICR_FRAME) = DEFAULT_SGI_PRIORITY
    /\ Active(gicr, GICR_FRAME) # {}

\* the priority registers of the redistributor frames
PriorityRegs == {<<"GICR_IPRIORITYR", i>> : i \in 0 .. 7}

\* C11: set_sgi_priority(i, p), i in 0..15, leaves p in byte lane i % 4 of
\* priority register i / 4 of the redistributor, the other three lanes of the
\* register as they were, and every other priority register as it was.
C11_PriorityLane ==
    [][(last = Idle /\ last'.op = "set_sgi_priority" /\ last'.id <= 15) =>
        LET i == last'.id
            reg == <<"GICR_IPRIORITYR", i \div 4>>
        IN /\ ByteOf(gicr'[GICR_FRAME][reg], i % 4) = last'.arg
           /\ \A lane \in (0 .. 3) \ {i % 4} :
                ByteOf(gicr'[GICR_FRAME][reg], lane) = ByteOf(gicr[GICR_FRAME][reg], lane)
           /\ \A c \in Cores, q \in PriorityRegs :
                (c # GICR_FRAME \/ q # reg) => gicr'[c][q] = gicr[c][q]
           /\ \A q \in DistRegs : gicd'[q] = gicd[q]]_vars

\* SGI 5 has been given priority 0x40 among SGIs 4, 6 and 7 at the default priority
C11_Witness ==
    /\ last.op = "set_sgi_priority" /\ last.id = 5 /\ last.arg = 64
    /\ gicr[GICR_FRAME][<<"GICR_IPRIORITYR", 1>>]
            = PriorityWord(DEFAULT_SGI_PRIORITY, DEFAULT_SGI_PRIORITY, 64, DEFAULT_SGI_PRIORITY)

\* the line-count field of a type register value, bit by bit
LineCountField(t) ==
    (IF 0 \in t THEN 1 ELSE 0) + (IF 1 \in t THEN 2 ELSE 0) + (IF 2 \in t THEN 4 ELSE 0)
        + (IF 3 \in t THEN 8 ELSE 0) + (IF 4 \in t THEN 16 ELSE 0)

\* C12: get_num_interrupts returns ((T & 0x1F) + 1) * 32 for the type
\* register value T, whatever the bits of T above bit 4; it returns 128 for
\* T = 3; the result is in 32..1024.
C12_NumInterrupts ==
    last.op = "get_num_interrupts" =>
        LET T == gicd[<<"GICD_TYPER", 0>>] IN
        /\ last.ret = (LineCountField(T) + 1) * 32
        /\ last.ret \in 32 .. 1024
        /\ T \cap (0 .. 4) = {0, 1} => last.ret = 128

\* the count has been read from a type register with line-count field 3 and
\* bits set above the field
C12_Witness ==
    /\ last.op = "get_num_interrupts" /\ last.ret = 128
    /\ gicd[<<"GICD_TYPER", 0>>] = {0, 1, 5, 8, 31}

\* the position of the wait loop in init
SpinIndex == CHOOSE k \in 1 .. Len(InitCode) : InitCode[k].op = "spin"

\* init has returned to its caller
Returned == pc = 0 /\ last.op = "init" /\ last.ret = 1

DistributorEnabled ==
    And(gicd[<<"GICD_CTLR", 0>>], Or(GICD_CTLR_ENABLE_GRP0, GICD_CTLR_ENABLE_GRP1)) # {}

\* C13: once the hardware has cleared ChildrenAsleep, a running init returns
\* with the distributor enabled; if the hardware never clears ChildrenAsleep,
\* init never returns and the distributor is never enabled.
C13_InitTerminatesIffWoken ==
    /\ (pc >= 1 /\ ~ChildrenAsleep) ~>
            (Returned /\ gicd[<<"GICD_CTLR", 0>>] = Or(GICD_CTLR_ENABLE_GRP0, GICD_CTLR_ENABLE_GRP1))
    /\ ([]ChildrenAsleep) => [](~Returned /\ ~DistributorEnabled)

\* init has left the wait loop on a redistributor that was asleep when init
\* read GICR_WAKER
C13_Witness ==
    /\ last.op = "init" /\ pc = SpinIndex + 1
    /\ And(tmp, GICR_WAKER_CHILDREN_ASLEEP) # {}
    /\ ~ChildrenAsleep

\* C14: when init returns, the CPU interface of the core that ran it has
\* system register access enabled, the priority mask at 0xFF, group 1 enabled
\* and EOI mode 0, and GICD_CTLR has the group 0 and the group 1 enable bits set.
C14_StateAtReturn ==
    (last.op = "init" /\ last.ret = 1) =>
        /\ 0 \in icc[last.core]["ICC_SRE"]
        /\ Val(icc[last.core]["ICC_PMR"]) = 255
        /\ 0 \in icc[last.core]["ICC_IGRPEN1"]
        /\ EOImode(icc, last.core) = 0
        /\ And(gicd[<<"GICD_CTLR", 0>>], GICD_CTLR_ENABLE_GRP0) # {}
        /\ And(gicd[<<"GICD_CTLR", 0>>], GICD_CTLR_ENABLE_GRP1) # {}

\* init has returned, having written ICC_CTLR, ICC_PMR, ICC_IGRPEN1 and ICC_SRE
C14_Witness ==
    /\ Returned
    /\ \A reg \in SysRegs : \E i \in 1 .. Len(wlog) : wlog[i].reg = <<reg, 0>>
    /\ icc[GICR_FRAME]["ICC_PMR"] = W(255)

\* the instructions of init that write a register
WriteOps == {"write", "write_or", "write_clear", "write_field"}

\* init is about to write a group or priority register of the distributor
AtDistributorTableWrite ==
    /\ pc \in 1 .. Len(InitCode)
    /\ InitCode[pc].op \in WriteOps
    /\ InitCode[pc].reg[1] \in {"GICD_IGROUPR0", "GICD_IPRIORITYR"}

\* C15: whenever init writes a group or a priority register of the
\* distributor, GICD_CTLR holds 0, in the first run of init and in every later one.
C15_TablesWrittenWhileDisabled ==
    AtDistributorTableWrite => gicd[<<"GICD_CTLR", 0>>] = W(0)

\* init, run again after an earlier run has enabled all private interrupts and
\* the distributor, is about to write a distributor priority register
C15_Witness ==
    /\ AtDistributorTableWrite /\ InitCode[pc].reg[1] = "GICD_IPRIORITYR"
    /\ gicr[GICR_FRAME][<<"GICR_ISENABLER0", 0>>] = ALL_ONES
    /\ gicd[<<"GICD_IGROUPR0", 0>>] = ALL_ONES

\* the index of the first write of a CPU interface register in a log, 0 if none
FirstWriteOf(log, reg) ==
    IF \E i \in 1 .. Len(log) : log[i].reg = <<reg, 0>>
    THEN CHOOSE i \in 1 .. Len(log) :
            /\ log[i].reg = <<reg, 0>>
            /\ \A j \in 1 .. i - 1 : log[j].reg # <<reg, 0>>
    ELSE 0

\* a write of a CPU interface register
IsIccWrite(e) == e.k = "w" /\ e.reg[1] \in SysRegs

\* C16: init writes the CPU interface registers in the order ICC_SRE, ICC_PMR,
\* ICC_IGRPEN1, ICC_CTLR: every write of ICC_PMR, ICC_IGRPEN1 or ICC_CTLR comes
\* after a write of ICC_SRE, and at return the first writes of the four
\* registers are in that order.
C16_AccessEnableFirst ==
    last.op = "init" =>
        /\ \A i \in 1 .. Len(wlog) :
            (IsIccWrite(wlog[i]) /\ wlog[i].reg # <<"ICC_SRE", 0>>) =>
                \E j \in 1 .. i - 1 : wlog[j].reg = <<"ICC_SRE", 0>>
        /\ last.ret = 1 =>
            /\ FirstWriteOf(wlog, "ICC_SRE") < FirstWriteOf(wlog, "ICC_PMR")
            /\ FirstWriteOf(wlog, "ICC_PMR") < FirstWriteOf(wlog, "ICC_IGRPEN1")
            /\ FirstWriteOf(wlog, "ICC_IGRPEN1") < FirstWriteOf(wlog, "ICC_CTLR")

\* C17: in init, what follows a write of a CPU interface register is an
\* instruction synchronization barrier, not another register write.
C17_BarrierAfterEachIccWrite ==
    last.op = "init" =>
        /\ \A i \in 1 .. Len(wlog) - 1 : IsIccWrite(wlog[i]) => wlog[i + 1].k = "isb"
        /\ last.ret = 1 => ~IsIccWrite(wlog[Len(wlog)])

\* a memory-mapped write that gates the visibility of interrupts: a group
\* assignment or a set-enable / clear-enable write
GatesVisibility(e) ==
    /\ e.k = "w"
    /\ e.reg[1] \in {"GICD_IGROUPR0", "GICR_IGROUPR0", "GICR_ISENABLER0", "GICR_ICENABLER0"}

\* C18: when init, enable_sgi or disable_sgi returns, each group-assignment
\* or enable / disable write it has made is followed by a barrier it has executed.
C18_BarrierBeforeReturn ==
    (\/ last.op = "init" /\ last.ret = 1
     \/ last.op \in {"enable_sgi", "disable_sgi"}) =>
        \A i \in 1 .. Len(wlog) :
            GatesVisibility(wlog[i]) => \E j \in i + 1 .. Len(wlog) : wlog[j].k = "isb"

\* the private interrupts init is to enable: the SGIs and the timer interrupt
SgisAndTimer == (0 .. MAX_SGI_ID) \cup {timer_interrupt_id}

\* the machine as it is now, no operation running
Current == [d |-> gicd, r |-> gicr, ic |-> icc, tmp |-> tmp, log |-> << >>]

\* C19: init run on a redistributor none of whose private interrupts is
\* enabled leaves all 32 private interrupts in group 1 and exactly SGIs 0..15
\* and the timer interrupt 30 enabled.
C19_EnabledAfterInit ==
    (pc = 0 /\ last = Idle /\ gicr[GICR_FRAME][<<"GICR_ISENABLER0", 0>>] = {}) =>
        LET m == RunFrom(Current, 1) IN
        /\ m.r[GICR_FRAME][<<"GICR_IGROUPR0", 0>>] = ALL_ONES
        /\ m.r[GICR_FRAME][<<"GICR_ISENABLER0", 0>>] = SgisAndTimer

\* C20: when init returns, every SGI 0..15 has priority 0xA0 in the
\* distributor and in the redistributor priority registers (id i in byte i % 4
\* of register i / 4) and so has the timer interrupt 30; no step of init
\* changes the priority bytes of ids 28, 29 and 31.
C20_PrioritiesAfterInit ==
    [][/\ (last'.op = "init" /\ last'.ret = 1) =>
            /\ \A i \in 0 .. MAX_SGI_ID :
                /\ ByteOf(gicd'[<<"GICD_IPRIORITYR", i \div 4>>], i % 4) = 160
                /\ ByteOf(gicr'[GICR_FRAME][<<"GICR_IPRIORITYR", i \div 4>>], i % 4) = 160
            /\ ByteOf(gicr'[GICR_FRAME][<<"GICR_IPRIORITYR", 7>>], 2) = 160
       /\ \A id \in {28, 29, 31} :
            PriorityOf(gicr', GICR_FRAME, id) = PriorityOf(gicr, GICR_FRAME, id)]_vars

\* init has returned on a redistributor that held priorities 0x44, 0x33, 0x11
\* for ids 28, 29, 31
C20_Witness ==
    /\ Returned
    /\ gicr[GICR_FRAME][<<"GICR_IPRIORITYR", 7>>] = PriorityWord(17, DEFAULT_SGI_PRIORITY, 51, 68)

\* the operation just run has issued an SGI
IssuedSgi(l) ==
    /\ l.op \in {"send_sgi", "send_sgi_to_cpu", "send_sgi_to_all_except_self", "send_sgi_to_self"}
    /\ l.id <= 15
    /\ l.op = "send_sgi_to_cpu" => l.arg <= 15

\* C21: an operation that issues an SGI makes exactly one write, the 64-bit
\* write of ICC_SGI1R, with its upper word zero, and executes a barrier after
\* it before it returns.
C21_OneRoutingWriteThenBarrier ==
    IssuedSgi(last) =>
        /\ Cardinality({i \in 1 .. Len(wlog) : wlog[i].k = "w"}) = 1
        /\ \A i \in 1 .. Len(wlog) :
            wlog[i].k = "w" =>
                /\ wlog[i].reg = <<"ICC_SGI1R", 0>>
                /\ wlog[i].hi = W(0)
                /\ \E j \in i + 1 .. Len(wlog) : wlog[j].k = "isb"

\* core 1 has sent SGI 5 to itself: one routing write, then the barrier
C21_Witness ==
    /\ last.op = "send_sgi_to_self" /\ last.id = 5 /\ last.core = 1
    /\ Len(wlog) = 2 /\ wlog[1].reg = <<"ICC_SGI1R", 0>> /\ wlog[2].k = "isb"

\* C22: get_interrupt_id(iar) is the low 10 bits of iar: iar modulo 1024; for
\* an SGI, whatever the originating core in bits [12:10], it is the SGI id.
C22_InterruptIdLowTenBits ==
    last.op = "get_interrupt_id" =>
        /\ last.ret = last.arg % 1024
        /\ last.ret \in 0 .. 1023
        /\ (last.arg % 1024) <= 15 =>
                /\ last.ret \in 0 .. 15
                /\ last.ret = get_interrupt_id(last.arg - 1024 * ((last.arg \div 1024) % 8))

\* the id of SGI 5 sent by core 3 has been extracted
C22_Witness ==
    /\ last.op = "get_interrupt_id" /\ last.arg = 5 + (1024 * 3) /\ last.ret = 5

\* the state of the private interrupts of a frame besides their enable bits
GroupPriorityPending(f) ==
    [reg \in RedistRegs \ {<<"GICR_ISENABLER0", 0>>, <<"GICR_WAKER", 0>>} |-> f[reg]]

\* C23: enable_sgi(i) and disable_sgi(i), i in 0..15, run to their end
\* without interleaving, leave the enable bit of every other private
\* interrupt, SGI or timer, as it was, and change no group, priority or
\* pending state.
C23_EnableDisableFrame ==
    [][(last = Idle /\ last'.op \in {"enable_sgi", "disable_sgi"} /\ last'.id <= 15) =>
        /\ \A j \in PrivateIds \ {last'.id} : \A c \in Cores :
                j \in gicr'[c][<<"GICR_ISENABLER0", 0>>] <=> j \in gicr[c][<<"GICR_ISENABLER0", 0>>]
        /\ \A c \in Cores : GroupPriorityPending(gicr'[c]) = GroupPriorityPending(gicr[c])
        /\ gicd' = gicd]_vars

\* SGI 5 has been disabled after init: SGI 15 and the timer are still enabled,
\* SGI 5 is still pending
C23_Witness ==
    /\ last.op = "disable_sgi" /\ last.id = 5
    /\ ~is_sgi_enabled(gicd, gicr, 5) /\ is_sgi_enabled(gicd, gicr, 15)
    /\ timer_interrupt_id \in gicr[GICR_FRAME][<<"GICR_ISENABLER0", 0>>]
    /\ 5 \in Pending(gicr, GICR_FRAME)

\* C24: when enable_sgi(i) completes after an interrupt handler of the same
\* core has run disable_sgi(j), j # i, between its read of GICR_ISENABLER0 and
\* its write, SGI j is disabled.
C24_HandlerDisableSurvives ==
    (pc = 0 /\ last.op = "enable_sgi" /\ last.ret = 1 /\ Len(wlog) = 2) =>
        \A j \in (0 .. MAX_SGI_ID) \ {last.id} :
            (wlog[1].reg = <<"GICR_ICENABLER0", 0>> /\ j \in wlog[1].val) =>
                ~is_sgi_enabled(gicd, gicr, j)

====
